---- MODULE Spec2Model ----
(***************************************************************************)
(* Model of airflow/dags/airflow_dag_clinical_trial.py: the DAG            *)
(* "dag_clinical_trial" with the three PythonOperator tasks extract,       *)
(* transform and load, chained extract >> transform >> load, retries = 2.  *)
(* One DAG run is modelled.  The three callables are translated statement  *)
(* by statement; every call they make into a collaborator (the dataset     *)
(* library, ti.xcom_pull, ti.xcom_push) either returns or raises, and a    *)
(* raise ends the attempt at that statement.                               *)
(***************************************************************************)
EXTENDS Integers, FiniteSets, Sequences, TLC

\* Number of distinct dataset splits the external dataset may hold.
NumSplits == 3

\* default_args={"retries": 2}
Retries == 2

Stages == {"extract", "transform", "load"}

KeyNames == {"order_data", "total_order_value"}

\* An XCom entry is addressed by (task_id, key).
XKeys == Stages \X KeyNames

OrderData == <<"extract", "order_data">>

TotalOrderValue == <<"transform", "total_order_value">>

Splits == 1..NumSplits

\* What xcom_pull yields for an entry nobody pushed.
None == 0

ExtractOutcomes == {"retrieve_raises", "push_raises", "ok"}

TransformOutcomes == {"pull_raises", "push_raises", "ok"}

LoadOutcomes == {"pull_raises", "ok"}

VARIABLES dagrun, state, tries, failures, xcom, pushCount, pullCount, printed, dataset

vars == <<dagrun, state, tries, failures, xcom, pushCount, pullCount, printed, dataset>>

\* extract_task >> transform_task >> load_task
Upstream(s) ==
  IF s = "transform" THEN {"extract"}
  ELSE IF s = "load" THEN {"transform"}
  ELSE {}

Terminal == {"success", "failed", "upstream_failed"}

ReadyNoDeps(s) == TRUE

ReadyAllDone(s) == \A p \in Upstream(s) : state[p] \in Terminal

\* PythonOperator default trigger rule: every upstream task succeeded.
Ready(s) == \A p \in Upstream(s) : state[p] = "success"

CanRetryStrict(s) == tries[s] < Retries

CanRetryLenient(s) == tries[s] <= Retries + 1

\* A failed attempt is retried while the attempt number is within retries.
CanRetry(s) == tries[s] <= Retries

\* State of the task after an attempt returned (ok) or raised.
AfterAttempt(s, ok) ==
  IF ok THEN "success"
  ELSE IF CanRetry(s) THEN "up_for_retry"
  ELSE "failed"

TransformValueTotal(v) == (v % NumSplits) + 1

\* transform republishes what it pulled, unchanged.
TransformValue(v) == v

TypeOK ==
  /\ dagrun \in {"none", "running", "success", "failed"}
  /\ state \in [Stages -> {"none", "running", "up_for_retry"} \cup Terminal]
  /\ tries \in [Stages -> 0..(Retries + 2)]
  /\ failures \in [Stages -> 0..(Retries + 2)]
  /\ xcom \in [XKeys -> Splits \cup {None}]
  /\ pushCount \in [Stages \X XKeys -> Nat]
  /\ pullCount \in [Stages \X XKeys -> Nat]
  /\ printed \in [Stages -> SUBSET (Splits \cup {None})]
  /\ dataset \in Splits

Init ==
  /\ dagrun = "none"
  /\ state = [s \in Stages |-> "none"]
  /\ tries = [s \in Stages |-> 0]
  /\ failures = [s \in Stages |-> 0]
  /\ xcom = [k \in XKeys |-> None]
  /\ pushCount = [e \in Stages \X XKeys |-> 0]
  /\ pullCount = [e \in Stages \X XKeys |-> 0]
  /\ printed = [s \in Stages |-> {}]
  /\ dataset \in Splits

\* schedule=None: a run exists only when it is triggered by hand.
Trigger ==
  /\ dagrun = "none"
  /\ dagrun' = "running"
  /\ UNCHANGED <<state, tries, failures, xcom, pushCount, pullCount, printed, dataset>>

\* First attempt of a task whose upstream tasks all succeeded.
Start(s) ==
  /\ dagrun = "running"
  /\ state[s] = "none"
  /\ Ready(s)
  /\ state' = [state EXCEPT ![s] = "running"]
  /\ tries' = [tries EXCEPT ![s] = 1]
  /\ UNCHANGED <<dagrun, failures, xcom, pushCount, pullCount, printed, dataset>>

\* A task waiting for a retry is run again; this is one more attempt.
Retry(s) ==
  /\ dagrun = "running"
  /\ state[s] = "up_for_retry"
  /\ state' = [state EXCEPT ![s] = "running"]
  /\ tries' = [tries EXCEPT ![s] = @ + 1]
  /\ UNCHANGED <<dagrun, failures, xcom, pushCount, pullCount, printed, dataset>>

MarkDirectFailureOnly(s) ==
  /\ dagrun = "running"
  /\ state[s] = "none"
  /\ \E p \in Upstream(s) : state[p] = "failed"
  /\ state' = [state EXCEPT ![s] = "upstream_failed"]
  /\ UNCHANGED <<dagrun, tries, failures, xcom, pushCount, pullCount, printed, dataset>>

\* A task with a failed upstream task is never run.
MarkUpstreamFailed(s) ==
  /\ dagrun = "running"
  /\ state[s] = "none"
  /\ \E p \in Upstream(s) : state[p] \in {"failed", "upstream_failed"}
  /\ state' = [state EXCEPT ![s] = "upstream_failed"]
  /\ UNCHANGED <<dagrun, tries, failures, xcom, pushCount, pullCount, printed, dataset>>

\* Bookkeeping common to the end of every attempt.
Finish(s, ok) ==
  /\ state' = [state EXCEPT ![s] = AfterAttempt(s, ok)]
  /\ failures' = [failures EXCEPT ![s] = IF ok THEN @ ELSE @ + 1]
  /\ UNCHANGED <<dagrun, tries, dataset>>

ExtractPushThenRaise(outcome) ==
  /\ state["extract"] = "running"
  /\ Finish("extract", outcome = "ok")
  /\ IF outcome \in {"ok", "push_raises"}
     THEN /\ xcom' = [xcom EXCEPT ![OrderData] = dataset]
          /\ pushCount' = [pushCount EXCEPT ![<<"extract", OrderData>>] = @ + 1]
     ELSE UNCHANGED <<xcom, pushCount>>
  /\ UNCHANGED <<pullCount, printed>>

\* def extract(**kwargs)
Extract(outcome) ==
  /\ state["extract"] = "running"
  /\ Finish("extract", outcome = "ok")
  /\ IF outcome = "ok"
     THEN /\ xcom' = [xcom EXCEPT ![OrderData] = dataset]
          /\ pushCount' = [pushCount EXCEPT ![<<"extract", OrderData>>] = @ + 1]
     ELSE UNCHANGED <<xcom, pushCount>>
  /\ UNCHANGED <<pullCount, printed>>

\* def transform(**kwargs)
Transform(outcome) ==
  /\ state["transform"] = "running"
  /\ Finish("transform", outcome = "ok")
  /\ IF outcome = "pull_raises"
     THEN UNCHANGED <<pullCount, printed>>
     ELSE /\ pullCount' = [pullCount EXCEPT ![<<"transform", OrderData>>] = @ + 1]
          /\ printed' = [printed EXCEPT !["transform"] = @ \cup {xcom[OrderData]}]
  /\ IF outcome = "ok"
     THEN /\ xcom' = [xcom EXCEPT ![TotalOrderValue] = TransformValue(xcom[OrderData])]
          /\ pushCount' = [pushCount EXCEPT ![<<"transform", TotalOrderValue>>] = @ + 1]
     ELSE UNCHANGED <<xcom, pushCount>>

LoadWrongKey(outcome) ==
  /\ state["load"] = "running"
  /\ Finish("load", outcome = "ok")
  /\ IF outcome = "pull_raises"
     THEN UNCHANGED <<pullCount, printed>>
     ELSE /\ pullCount' = [pullCount EXCEPT ![<<"load", OrderData>>] = @ + 1]
          /\ printed' = [printed EXCEPT !["load"] = @ \cup {xcom[OrderData]}]
  /\ UNCHANGED <<xcom, pushCount>>

LoadAndPublish(outcome) ==
  /\ state["load"] = "running"
  /\ Finish("load", outcome = "ok")
  /\ IF outcome = "pull_raises"
     THEN UNCHANGED <<pullCount, printed, xcom, pushCount>>
     ELSE /\ pullCount' = [pullCount EXCEPT ![<<"load", TotalOrderValue>>] = @ + 1]
          /\ printed' = [printed EXCEPT !["load"] = @ \cup {xcom[TotalOrderValue]}]
          /\ xcom' = [xcom EXCEPT ![<<"load", "total_order_value">>] = xcom[TotalOrderValue]]
          /\ pushCount' = [pushCount EXCEPT ![<<"load", <<"load", "total_order_value">>>>] = @ + 1]

\* def load(**kwargs)
Load(outcome) ==
  /\ state["load"] = "running"
  /\ Finish("load", outcome = "ok")
  /\ IF outcome = "pull_raises"
     THEN UNCHANGED <<pullCount, printed>>
     ELSE /\ pullCount' = [pullCount EXCEPT ![<<"load", TotalOrderValue>>] = @ + 1]
          /\ printed' = [printed EXCEPT !["load"] = @ \cup {xcom[TotalOrderValue]}]
  /\ UNCHANGED <<xcom, pushCount>>

\* The run ends when every task is in a final state; it succeeded only if
\* every task did.
FinishRun ==
  /\ dagrun = "running"
  /\ \A s \in Stages : state[s] \in Terminal
  /\ dagrun' = IF \A s \in Stages : state[s] = "success" THEN "success" ELSE "failed"
  /\ UNCHANGED <<state, tries, failures, xcom, pushCount, pullCount, printed, dataset>>

Next ==
  \/ Trigger
  \/ \E s \in Stages : Start(s)
  \/ \E s \in Stages : Retry(s)
  \/ \E s \in Stages : MarkUpstreamFailed(s)
  \/ \E o \in ExtractOutcomes : Extract(o)
  \/ \E o \in TransformOutcomes : Transform(o)
  \/ \E o \in LoadOutcomes : Load(o)
  \/ FinishRun

Spec == Init /\ [][Next]_vars

\* The host keeps scheduling whatever step of the run is possible.
FairSpec == Init /\ [][Next]_vars /\ WF_vars(Next)

----------------------------------------------------------------------------
EverRan(s) == tries[s] > 0

Started(s) == state[s] = "running" \/ EverRan(s)

RunOver == dagrun \in {"success", "failed"}

\* C1: transform is never running, and has never been started, unless extract
\* has succeeded; load is never running, and has never been started, unless
\* transform has succeeded.
C1_Ordering ==
  /\ Started("transform") => state["extract"] = "success"
  /\ Started("load") => state["transform"] = "success"

C1_Witness ==
  /\ state["load"] = "running"
  /\ tries["extract"] = 3
  /\ tries["transform"] = 2

\* C2: once a stage is failed, none of its successors has been started or has
\* published anything: failed extract blocks transform and load, failed
\* transform blocks load.
C2_FailureBlocks ==
  /\ state["extract"] = "failed" =>
       /\ ~Started("transform") /\ ~Started("load")
       /\ \A k \in XKeys : pushCount[<<"transform", k>>] = 0 /\ pushCount[<<"load", k>>] = 0
       /\ xcom[TotalOrderValue] = None
  /\ state["transform"] = "failed" =>
       /\ ~Started("load")
       /\ \A k \in XKeys : pushCount[<<"load", k>>] = 0

C2_Witness ==
  /\ dagrun = "failed"
  /\ state["extract"] = "failed"
  /\ state["transform"] = "upstream_failed"
  /\ state["load"] = "upstream_failed"

C3_State ==
  /\ tries["extract"] <= Retries + 1
  /\ state["extract"] = "up_for_retry" =>
       tries["extract"] <= Retries /\ failures["extract"] = tries["extract"]
  /\ state["extract"] = "failed" =>
       tries["extract"] = Retries + 1 /\ failures["extract"] = Retries + 1
  /\ state["extract"] = "success" => failures["extract"] = tries["extract"] - 1
  /\ (RunOver /\ state["extract"] = "failed") => dagrun = "failed"

C3_Step ==
  /\ (state["extract"] = "running" /\ failures'["extract"] > failures["extract"]) =>
       state'["extract"] = (IF tries["extract"] <= Retries THEN "up_for_retry" ELSE "failed")
  /\ state["extract"] \in {"success", "failed"} =>
       state'["extract"] = state["extract"] /\ tries'["extract"] = tries["extract"]

\* C3: a failed attempt of extract is followed by another attempt as long as
\* at most 2 re-runs were made; extract is failed exactly when the first
\* attempt and both re-runs failed, and then the run ends failed; after an
\* attempt succeeds extract stays succeeded and is never attempted again.
C3_ExtractRetry == [](C3_State) /\ [][C3_Step]_vars

C3_Witness ==
  /\ state["extract"] = "failed"
  /\ failures["extract"] = 3
  /\ dagrun = "failed"

\* C4 as stated: at the end of every run the store has received exactly one
\* write of (extract, "order_data"), whether or not the run succeeded.
C4_Original == RunOver => pushCount[<<"extract", OrderData>>] = 1

\* C4: (extract, "order_data") is written at most once per run; it has been
\* written exactly once, with the dataset split, when extract succeeded
\* (after any number of attempts) and not at all otherwise.
C4_OneWriteIffSucceeded ==
  /\ pushCount[<<"extract", OrderData>>] <= 1
  /\ state["extract"] = "success" =>
       pushCount[<<"extract", OrderData>>] = 1 /\ xcom[OrderData] = dataset
  /\ state["extract"] # "success" =>
       pushCount[<<"extract", OrderData>>] = 0 /\ xcom[OrderData] = None

C4_Witness ==
  /\ RunOver
  /\ state["extract"] = "success"
  /\ tries["extract"] = 3
  /\ pushCount[<<"extract", OrderData>>] = 1

WriteOnceByProducer ==
  \A s \in Stages : \A k \in XKeys :
    pushCount[<<s, k>>] <=
      (IF <<s, k>> \in {<<"extract", OrderData>>, <<"transform", TotalOrderValue>>} THEN 1 ELSE 0)

ReadOnlyBySuccessor ==
  \A s \in Stages : \A k \in XKeys :
    <<s, k>> \notin {<<"transform", OrderData>>, <<"load", TotalOrderValue>>} =>
      pullCount[<<s, k>>] = 0

\* C7 as stated: each key is written at most once, by its producer only, and
\* read at most once, by its immediate successor only.
C7_Original ==
  /\ WriteOnceByProducer
  /\ ReadOnlyBySuccessor
  /\ \A s \in Stages : \A k \in XKeys : pullCount[<<s, k>>] <= 1

\* C7: each key is written at most once and only by its producer, and read
\* only by its immediate successor, at most once in each attempt of that
\* successor (so at most 3 times in a run).
C7_WriteOnceReadPerAttempt ==
  /\ WriteOnceByProducer
  /\ ReadOnlyBySuccessor
  /\ \A s \in Stages : \A k \in XKeys :
       pullCount[<<s, k>>] <= tries[s] /\ pullCount[<<s, k>>] <= Retries + 1

C7_Witness ==
  /\ pullCount[<<"transform", OrderData>>] = 3
  /\ pushCount[<<"extract", OrderData>>] = 1
  /\ pullCount[<<"load", TotalOrderValue>>] = 1

\* C8 as stated: no stage is started more than 2 times in a run.
C8_Original == \A s \in Stages : tries[s] <= 2

\* C8: no stage is started more than 3 times in a run: one first attempt and
\* at most 2 retries.
C8_AtMostThreeAttempts == \A s \in Stages : tries[s] <= Retries + 1

C8_Witness ==
  /\ tries["load"] = 3
  /\ tries["transform"] = 3

Runnable(s) == dagrun = "running" /\ state[s] = "none" /\ Ready(s)

LoadActs == state["load"] = "running" \/ state'["load"] = "running"

C9_Step ==
  LoadActs =>
    /\ xcom' = xcom
    /\ pushCount' = pushCount
    /\ \A s \in Stages : Runnable(s)' => Runnable(s)

\* C9: a step that starts, retries or ends an attempt of load leaves every
\* entry of the exchange store as it was and writes nothing, and makes no
\* stage runnable that was not runnable before.
C9_LoadNoOutput == [][C9_Step]_vars

C9_Witness ==
  /\ state["load"] = "success"
  /\ failures["load"] = 1
  /\ xcom[TotalOrderValue] = dataset
  /\ pullCount[<<"load", TotalOrderValue>>] = 1

AllSucceeded == \A s \in Stages : state[s] = "success"

Before(s) ==
  IF s = "transform" THEN {"extract"}
  ELSE IF s = "load" THEN {"extract", "transform"}
  ELSE {}

After(s) ==
  IF s = "extract" THEN {"transform", "load"}
  ELSE IF s = "transform" THEN {"load"}
  ELSE {}

OneFailed ==
  \E f \in Stages :
    /\ state[f] = "failed"
    /\ \A s \in Stages \ {f} : state[s] # "failed"
    /\ \A p \in Before(f) : state[p] = "success"
    /\ \A n \in After(f) : ~Started(n) /\ tries[n] = 0

TerminalOutcome ==
  \/ dagrun = "success" /\ AllSucceeded
  \/ dagrun = "failed" /\ OneFailed

\* C10: under fair scheduling the run eventually reaches a terminal outcome
\* and stays there: all three stages succeeded, or exactly one stage failed
\* with all its predecessors succeeded and none of its successors started.
C10_Terminates == <>[]TerminalOutcome

C10_Witness ==
  /\ dagrun = "failed"
  /\ state["load"] = "failed"
  /\ state["extract"] = "success"
  /\ state["transform"] = "success"
  /\ tries["load"] = 3

====
